---- MODULE Spec2Model ----
(***************************************************************************)
(* Model of the hand-written core of thecompaniesapi/sdk-go:               *)
(*   client.go  - BaseClient, its options, BuildQueryString, MakeRequest,  *)
(*                MakeRequestWithQuery, Error                              *)
(*   wrapper    - ApiClient and the method-per-operation facade            *)
(*                                                                         *)
(* A Go string is a sequence of one-character strings, so that the         *)
(* encodings the code applies (url.QueryEscape, json.Marshal, fmt verbs)   *)
(* are computed character by character.  A literal the code never looks    *)
(* into (a host name, an API key) is written as a single element.          *)
(***************************************************************************)
EXTENDS Integers, Sequences, FiniteSets, TLC

\* ------------------------------------------------------------------------
\* Bounds of the model
\* ------------------------------------------------------------------------
MaxParams == 2

MaxOpts == 2
\* goroutines calling MakeRequest / MakeRequestWithQuery on one client at once
MaxGoroutines == 2

\* ------------------------------------------------------------------------
\* Characters and byte order
\* ------------------------------------------------------------------------
\* printable ASCII, code points 32..126, in order (96 is spelled out: the
\* grave accent cannot be written in a string literal)
Ascii ==
  << " ", "!", "\"", "#", "$", "%", "&", "'", "(", ")", "*", "+", ",", "-",
     ".", "/", "0", "1", "2", "3", "4", "5", "6", "7", "8", "9", ":", ";",
     "<", "=", ">", "?", "@", "A", "B", "C", "D", "E", "F", "G", "H", "I",
     "J", "K", "L", "M", "N", "O", "P", "Q", "R", "S", "T", "U", "V", "W",
     "X", "Y", "Z", "[", "\\", "]", "^", "_", "grave", "a", "b", "c", "d", "e",
     "f", "g", "h", "i", "j", "k", "l", "m", "n", "o", "p", "q", "r", "s",
     "t", "u", "v", "w", "x", "y", "z", "{", "|", "}", "~" >>

\* code point of each character
OrdTable == [c \in {Ascii[i] : i \in 1..Len(Ascii)} |->
               31 + (CHOOSE i \in 1..Len(Ascii) : Ascii[i] = c)]

Ord(c) == OrdTable[c]

Chr(n) == Ascii[n - 31]

HexDigits ==
  << "0", "1", "2", "3", "4", "5", "6", "7", "8", "9",
     "A", "B", "C", "D", "E", "F" >>

LowerHexDigits ==
  << "0", "1", "2", "3", "4", "5", "6", "7", "8", "9",
     "a", "b", "c", "d", "e", "f" >>

\* '0'..'9', 'A'..'Z', 'a'..'z'
AlnumChars ==
  {Ascii[i] : i \in (17..26) \cup (34..59) \cup (66..91)}

IsAlnum(c) == c \in AlnumChars

\* Go's string comparison a > b: bytewise lexicographic
RECURSIVE StrGT(_, _)
StrGT(a, b) ==
  IF a = <<>> THEN FALSE
  ELSE IF b = <<>> THEN TRUE
  ELSE IF Head(a) = Head(b) THEN StrGT(Tail(a), Tail(b))
  ELSE Ord(Head(a)) > Ord(Head(b))

\* strings.Join(parts, sep)
RECURSIVE Join(_, _)
Join(parts, sep) ==
  IF parts = <<>> THEN <<>>
  ELSE IF Len(parts) = 1 THEN parts[1]
  ELSE parts[1] \o sep \o Join(Tail(parts), sep)

\* strings.Contains(s, c) for a one-character c
Contains(s, c) == \E i \in 1..Len(s) : s[i] = c

\* strings.Split(s, sep)[0]: the text before the first sep (all of s if none)
RECURSIVE SplitFirst(_, _)
SplitFirst(s, sep) ==
  IF s = <<>> \/ Head(s) = sep THEN <<>>
  ELSE <<Head(s)>> \o SplitFirst(Tail(s), sep)

\* ------------------------------------------------------------------------
\* net/url: QueryEscape and QueryUnescape
\* ------------------------------------------------------------------------
\* shouldEscape(c, encodeQueryComponent): everything but the unreserved set
UnreservedChars == AlnumChars \cup {"-", "_", ".", "~"}

ShouldEscape(c) == c \notin UnreservedChars

EscapeChar(c) ==
  IF c = " " THEN <<"+">>
  ELSE IF ShouldEscape(c)
       THEN <<"%", HexDigits[(Ord(c) \div 16) + 1], HexDigits[(Ord(c) % 16) + 1]>>
       ELSE <<c>>

RECURSIVE QueryEscape(_)
QueryEscape(s) ==
  IF s = <<>> THEN <<>> ELSE EscapeChar(Head(s)) \o QueryEscape(Tail(s))

HexChars == {HexDigits[i] : i \in 1..16} \cup {LowerHexDigits[i] : i \in 1..16}

HexTable == [c \in HexChars |->
               (CHOOSE i \in 1..16 : HexDigits[i] = c \/ LowerHexDigits[i] = c) - 1]

HexVal(c) == HexTable[c]

IsHex(c) == c \in HexChars

RECURSIVE QueryUnescape(_)
QueryUnescape(s) ==
  IF s = <<>> THEN <<>>
  ELSE IF Head(s) = "+" THEN <<" ">> \o QueryUnescape(Tail(s))
  ELSE IF Head(s) = "%" /\ Len(s) >= 3 /\ IsHex(s[2]) /\ IsHex(s[3])
       THEN <<Chr(16 * HexVal(s[2]) + HexVal(s[3]))>>
            \o QueryUnescape(SubSeq(s, 4, Len(s)))
  ELSE <<Head(s)>> \o QueryUnescape(Tail(s))

\* ------------------------------------------------------------------------
\* Go values held in a map[string]interface{}
\* ------------------------------------------------------------------------
\* One record shape for every value:
\*   kind  - reflect.Kind ("nil" is the untyped nil interface; "entry" is a
\*           key/value pair of a map or a named field of a struct)
\*   s     - text of a string, key of an entry, name of a non-finite float
\*   n     - integer value; tenths of a finite float; 1/0 of a bool
\*   el    - elements of a slice/array, entries of a map, fields of a
\*           struct, the pointee of a pointer, the value of an entry
\*   isnil - nil pointer, nil slice, nil map
Val(kind, s, n, el, isnil) ==
  [kind |-> kind, s |-> s, n |-> n, el |-> el, isnil |-> isnil]

NilV == Val("nil", <<>>, 0, <<>>, TRUE)

StringV(s) == Val("string", s, 0, <<>>, FALSE)

IntV(n) == Val("int", <<>>, n, <<>>, FALSE)

UintV(n) == Val("uint", <<>>, n, <<>>, FALSE)

FloatV(tenths) == Val("float", <<>>, tenths, <<>>, FALSE)

NaNV == Val("float", <<"N", "a", "N">>, 0, <<>>, FALSE)

BoolV(b) == Val("bool", <<>>, IF b THEN 1 ELSE 0, <<>>, FALSE)

SliceV(el) == Val("slice", <<>>, 0, el, FALSE)

NilSliceV == Val("slice", <<>>, 0, <<>>, TRUE)

EntryV(k, v) == Val("entry", k, 0, <<v>>, FALSE)

MapV(entries) == Val("map", <<>>, 0, entries, FALSE)

NilMapV == Val("map", <<>>, 0, <<>>, TRUE)

StructV(fields) == Val("struct", <<>>, 0, fields, FALSE)

PtrV(v) == Val("ptr", <<>>, 0, <<v>>, FALSE)

NilPtrV == Val("ptr", <<>>, 0, <<>>, TRUE)

IsStructured(kind) == kind \in {"struct", "map", "slice", "array"}

\* ------------------------------------------------------------------------
\* fmt and strconv
\* ------------------------------------------------------------------------
RECURSIVE Digits(_)
Digits(n) ==
  IF n < 10 THEN <<HexDigits[n + 1]>>
  ELSE Digits(n \div 10) \o <<HexDigits[(n % 10) + 1]>>

\* FormatInt printing the magnitude only
FormatInt_NoSign(n) == IF n < 0 THEN Digits(0 - n) ELSE Digits(n)

\* fmt.Sprintf("%d", n)
FormatInt(n) == IF n < 0 THEN <<"-">> \o Digits(0 - n) ELSE Digits(n)

\* fmt.Sprintf("%g", f) for a float given in tenths (|f| below the
\* exponent threshold) or by the name of a non-finite value
FormatFloat(v) ==
  IF v.s # <<>> THEN v.s
  ELSE LET a == IF v.n < 0 THEN 0 - v.n ELSE v.n
           sign == IF v.n < 0 THEN <<"-">> ELSE <<>>
           frac == IF a % 10 = 0 THEN <<>> ELSE <<".", HexDigits[(a % 10) + 1]>>
       IN sign \o Digits(a \div 10) \o frac

\* strconv.FormatBool
FormatBool(v) ==
  IF v.n = 1 THEN <<"t", "r", "u", "e">> ELSE <<"f", "a", "l", "s", "e">>

\* the entries of a map ordered by key, as fmt and encoding/json emit them
RECURSIVE InsertEntry(_, _)
InsertEntry(e, sorted) ==
  IF sorted = <<>> THEN <<e>>
  ELSE IF StrGT(Head(sorted).s, e.s) THEN <<e>> \o sorted
  ELSE <<Head(sorted)>> \o InsertEntry(e, Tail(sorted))

RECURSIVE SortEntries(_)
SortEntries(el) ==
  IF el = <<>> THEN <<>> ELSE InsertEntry(Head(el), SortEntries(Tail(el)))

\* fmt.Sprintf("%v", v); a pointer below the top level prints as an address
RECURSIVE SprintV(_, _)
RECURSIVE SprintVList(_)
SprintVList(el) ==
  IF el = <<>> THEN <<>>
  ELSE IF Len(el) = 1 THEN SprintV(el[1], FALSE)
  ELSE SprintV(el[1], FALSE) \o <<" ">> \o SprintVList(Tail(el))

SprintV(v, top) ==
  CASE v.kind = "nil" -> <<"<", "n", "i", "l", ">">>
    [] v.kind = "string" -> v.s
    [] v.kind \in {"int", "uint"} -> FormatInt(v.n)
    [] v.kind = "float" -> FormatFloat(v)
    [] v.kind = "bool" -> FormatBool(v)
    [] v.kind \in {"slice", "array"} -> <<"[">> \o SprintVList(v.el) \o <<"]">>
    [] v.kind = "map" ->
         <<"m", "a", "p", "[">> \o SprintVList(SortEntries(v.el)) \o <<"]">>
    [] v.kind = "entry" -> v.s \o <<":">> \o SprintV(v.el[1], FALSE)
    [] v.kind = "struct" ->
         <<"{">> \o SprintVList([i \in 1..Len(v.el) |-> v.el[i].el[1]]) \o <<"}">>
    [] v.kind = "ptr" ->
         IF v.isnil THEN <<"<", "n", "i", "l", ">">>
         ELSE IF top /\ IsStructured(v.el[1].kind)
              THEN <<"&">> \o SprintV(v.el[1], FALSE)
              ELSE <<"0", "x", "c", "0", "0", "0">>

\* ------------------------------------------------------------------------
\* encoding/json: Marshal
\* ------------------------------------------------------------------------
JSONEscapeChar(c) ==
  CASE c = "\"" -> <<"\\", "\"">>
    [] c = "\\" -> <<"\\", "\\">>
    [] c \in {"<", ">", "&"} ->
         <<"\\", "u", "0", "0",
           LowerHexDigits[(Ord(c) \div 16) + 1], LowerHexDigits[(Ord(c) % 16) + 1]>>
    [] OTHER -> <<c>>

RECURSIVE JSONEscape(_)
JSONEscape(s) ==
  IF s = <<>> THEN <<>> ELSE JSONEscapeChar(Head(s)) \o JSONEscape(Tail(s))

JSONQuote(s) == <<"\"">> \o JSONEscape(s) \o <<"\"">>

MarshalOK(text) == [ok |-> TRUE, text |-> text]

MarshalErr == [ok |-> FALSE, text |-> <<>>]

Null == <<"n", "u", "l", "l">>

\* json.Marshal(v): [ok, text]; ok is FALSE for an UnsupportedValueError
RECURSIVE JSONMarshal(_)
RECURSIVE MarshalList(_)
MarshalList(el) ==
  IF el = <<>> THEN MarshalOK(<<>>)
  ELSE LET h == JSONMarshal(Head(el))
           t == MarshalList(Tail(el))
       IN IF ~h.ok \/ ~t.ok THEN MarshalErr
          ELSE IF Len(el) = 1 THEN h
          ELSE MarshalOK(h.text \o <<",">> \o t.text)

JSONMarshal(v) ==
  CASE v.kind = "nil" -> MarshalOK(Null)
    [] v.kind = "string" -> MarshalOK(JSONQuote(v.s))
    [] v.kind \in {"int", "uint"} -> MarshalOK(FormatInt(v.n))
    [] v.kind = "float" ->
         IF v.s # <<>> THEN MarshalErr ELSE MarshalOK(FormatFloat(v))
    [] v.kind = "bool" -> MarshalOK(FormatBool(v))
    [] v.kind \in {"slice", "array"} ->
         IF v.isnil THEN MarshalOK(Null)
         ELSE LET r == MarshalList(v.el)
              IN IF r.ok THEN MarshalOK(<<"[">> \o r.text \o <<"]">>) ELSE MarshalErr
    [] v.kind = "map" ->
         IF v.isnil THEN MarshalOK(Null)
         ELSE LET r == MarshalList(SortEntries(v.el))
              IN IF r.ok THEN MarshalOK(<<"{">> \o r.text \o <<"}">>) ELSE MarshalErr
    [] v.kind = "struct" ->
         LET r == MarshalList(v.el)
         IN IF r.ok THEN MarshalOK(<<"{">> \o r.text \o <<"}">>) ELSE MarshalErr
    [] v.kind = "entry" ->
         LET r == JSONMarshal(v.el[1])
         IN IF r.ok THEN MarshalOK(JSONQuote(v.s) \o <<":">> \o r.text) ELSE MarshalErr
    [] v.kind = "ptr" ->
         IF v.isnil THEN MarshalOK(Null) ELSE JSONMarshal(v.el[1])

\* ------------------------------------------------------------------------
\* encoding/json: decoding
\* ------------------------------------------------------------------------
\* A decoded JSON value uses the value records above: a JSON number is a
\* "float" (tenths), an array a "slice", an object a "map" whose entries
\* are in the order of the text, null the nil value.
ParseOK(val, rest) == [ok |-> TRUE, val |-> val, rest |-> rest]

ParseFail == [ok |-> FALSE, val |-> NilV, rest |-> <<>>]

RECURSIVE SkipWS(_)
SkipWS(t) == IF t # <<>> /\ Head(t) = " " THEN SkipWS(Tail(t)) ELSE t

HasPrefix(t, pre) == Len(t) >= Len(pre) /\ SubSeq(t, 1, Len(pre)) = pre

DigitChars == {HexDigits[i] : i \in 1..10}

IsDigit(c) == c \in DigitChars

DigitVal(c) == HexTable[c]

\* the text after the opening quote, up to and including the closing one
RECURSIVE ParseString(_, _)
ParseString(t, acc) ==
  IF t = <<>> THEN ParseFail
  ELSE IF Head(t) = "\"" THEN ParseOK(StringV(acc), Tail(t))
  ELSE IF Head(t) = "\\"
       THEN IF Len(t) >= 2 /\ t[2] \in {"\"", "\\", "/"}
            THEN ParseString(SubSeq(t, 3, Len(t)), acc \o <<t[2]>>)
            ELSE IF /\ Len(t) >= 6 /\ t[2] = "u"
                    /\ \A i \in 3..6 : IsHex(t[i])
                    /\ t[3] = "0" /\ t[4] = "0"
                    /\ 16 * HexVal(t[5]) + HexVal(t[6]) \in 32..126
                 THEN ParseString(SubSeq(t, 7, Len(t)),
                                  acc \o <<Chr(16 * HexVal(t[5]) + HexVal(t[6]))>>)
                 ELSE ParseFail
  ELSE ParseString(Tail(t), acc \o <<Head(t)>>)

RECURSIVE ParseDigits(_, _)
ParseDigits(t, acc) ==
  IF t # <<>> /\ IsDigit(Head(t))
  THEN ParseDigits(Tail(t), 10 * acc + DigitVal(Head(t)))
  ELSE [n |-> acc, rest |-> t]

\* an integer with at most one fractional digit, no exponent
ParseNumber(t) ==
  LET neg == Head(t) = "-"
      t1 == IF neg THEN Tail(t) ELSE t
  IN IF t1 = <<>> \/ ~IsDigit(Head(t1)) THEN ParseFail
     ELSE LET ip == ParseDigits(t1, 0)
              hasFrac == /\ Len(ip.rest) >= 2 /\ ip.rest[1] = "."
                         /\ IsDigit(ip.rest[2])
              tenths == 10 * ip.n + (IF hasFrac THEN DigitVal(ip.rest[2]) ELSE 0)
              rest == IF hasFrac THEN SubSeq(ip.rest, 3, Len(ip.rest)) ELSE ip.rest
          IN IF rest # <<>> /\ (IsDigit(Head(rest)) \/ Head(rest) \in {".", "e", "E"})
             THEN ParseFail
             ELSE ParseOK(FloatV(IF neg THEN 0 - tenths ELSE tenths), rest)

RECURSIVE ParseValue(_)
RECURSIVE ParseElems(_, _)
RECURSIVE ParseMembers(_, _)
\* after "[" or ",": the remaining elements of an array
ParseElems(t, acc) ==
  LET r == ParseValue(t)
  IN IF ~r.ok THEN ParseFail
     ELSE LET t2 == SkipWS(r.rest)
          IN IF t2 = <<>> THEN ParseFail
             ELSE IF Head(t2) = "]" THEN ParseOK(SliceV(acc \o <<r.val>>), Tail(t2))
             ELSE IF Head(t2) = "," THEN ParseElems(Tail(t2), acc \o <<r.val>>)
             ELSE ParseFail

\* after "{" or ",": the remaining members of an object
ParseMembers(t, acc) ==
  LET t1 == SkipWS(t)
  IN IF t1 = <<>> \/ Head(t1) # "\"" THEN ParseFail
     ELSE LET k == ParseString(Tail(t1), <<>>)
          IN IF ~k.ok THEN ParseFail
             ELSE LET t2 == SkipWS(k.rest)
                  IN IF t2 = <<>> \/ Head(t2) # ":" THEN ParseFail
                     ELSE LET r == ParseValue(Tail(t2))
                          IN IF ~r.ok THEN ParseFail
                             ELSE LET t3 == SkipWS(r.rest)
                                      acc2 == acc \o <<EntryV(k.val.s, r.val)>>
                                  IN IF t3 = <<>> THEN ParseFail
                                     ELSE IF Head(t3) = "}"
                                          THEN ParseOK(MapV(acc2), Tail(t3))
                                     ELSE IF Head(t3) = ","
                                          THEN ParseMembers(Tail(t3), acc2)
                                     ELSE ParseFail

ParseValue(t0) ==
  LET t == SkipWS(t0)
  IN IF t = <<>> THEN ParseFail
     ELSE CASE Head(t) = "\"" -> ParseString(Tail(t), <<>>)
            [] Head(t) = "[" ->
                 LET t1 == SkipWS(Tail(t))
                 IN IF t1 # <<>> /\ Head(t1) = "]"
                    THEN ParseOK(SliceV(<<>>), Tail(t1))
                    ELSE ParseElems(t1, <<>>)
            [] Head(t) = "{" ->
                 LET t1 == SkipWS(Tail(t))
                 IN IF t1 # <<>> /\ Head(t1) = "}"
                    THEN ParseOK(MapV(<<>>), Tail(t1))
                    ELSE ParseMembers(t1, <<>>)
            [] Head(t) = "-" \/ IsDigit(Head(t)) -> ParseNumber(t)
            [] HasPrefix(t, <<"t", "r", "u", "e">>) ->
                 ParseOK(BoolV(TRUE), SubSeq(t, 5, Len(t)))
            [] HasPrefix(t, <<"f", "a", "l", "s", "e">>) ->
                 ParseOK(BoolV(FALSE), SubSeq(t, 6, Len(t)))
            [] HasPrefix(t, Null) -> ParseOK(NilV, SubSeq(t, 5, Len(t)))
            [] OTHER -> ParseFail

\* the whole text is one JSON value: [ok, val]
JSONDecode(text) ==
  LET r == ParseValue(text)
  IN IF r.ok /\ SkipWS(r.rest) = <<>> THEN r ELSE ParseFail

\* ------------------------------------------------------------------------
\* BaseClient.BuildQueryString
\* ------------------------------------------------------------------------
\* A params map is a set of entries with distinct keys; the order in which
\* "for key, value := range params" visits them is any enumeration of it.
Perms(S) ==
  {f \in [1..Cardinality(S) -> S] : \A i, j \in DOMAIN f : f[i] = f[j] => i = j}

Emit(text) == [emit |-> TRUE, text |-> text]

Skip == [emit |-> FALSE, text |-> <<>>]

\* EncodeStructured without the url.QueryEscape of the JSON text
EncodeStructured_Unescaped(v) ==
  LET m == JSONMarshal(v)
  IN IF ~m.ok THEN QueryEscape(SprintV(v, TRUE)) ELSE m.text

\* json.Marshal with the fmt fallback, then url.QueryEscape
EncodeStructured(v) ==
  LET m == JSONMarshal(v)
  IN IF ~m.ok THEN QueryEscape(SprintV(v, TRUE)) ELSE QueryEscape(m.text)

\* the body of the range loop for one value: skipped, or its encodedValue
EncodeValue(value) ==
  IF value.kind = "nil" THEN Skip
  ELSE CASE IsStructured(value.kind) -> Emit(EncodeStructured(value))
         [] value.kind = "ptr" ->
              IF value.isnil THEN Skip
              ELSE LET elem == value.el[1]
                   IN IF IsStructured(elem.kind)
                      THEN Emit(EncodeStructured(elem))
                      ELSE Emit(QueryEscape(SprintV(elem, TRUE)))
         [] value.kind = "string" -> Emit(QueryEscape(value.s))
         [] value.kind = "int" -> Emit(QueryEscape(FormatInt(value.n)))
         [] value.kind = "uint" -> Emit(QueryEscape(FormatInt(value.n)))
         [] value.kind = "float" -> Emit(QueryEscape(FormatFloat(value)))
         [] value.kind = "bool" -> Emit(QueryEscape(FormatBool(value)))
         [] OTHER -> Emit(QueryEscape(SprintV(value, TRUE)))

\* the range loop: parts in iteration order
RECURSIVE CollectParts(_)
CollectParts(order) ==
  IF order = <<>> THEN <<>>
  ELSE LET e == Head(order)
           ev == EncodeValue(e.el[1])
       IN (IF ev.emit THEN <<QueryEscape(e.s) \o <<"=">> \o ev.text>> ELSE <<>>)
          \o CollectParts(Tail(order))

Swap(parts, i, j) ==
  [k \in 1..Len(parts) |->
     IF k = i THEN parts[j] ELSE IF k = j THEN parts[i] ELSE parts[k]]

\* for j := i + 1; j < len(parts); j++ { if keyI > keyJ { swap } }
RECURSIVE SortInner(_, _, _)
SortInner(parts, i, j) ==
  IF j > Len(parts) THEN parts
  ELSE LET keyI == SplitFirst(parts[i], "=")
           keyJ == SplitFirst(parts[j], "=")
       IN SortInner(IF StrGT(keyI, keyJ) THEN Swap(parts, i, j) ELSE parts, i, j + 1)

\* for i := 0; i < len(parts)-1; i++
RECURSIVE SortOuter(_, _)
SortOuter(parts, i) ==
  IF i > Len(parts) - 1 THEN parts
  ELSE SortOuter(SortInner(parts, i, i + 1), i + 1)

\* SortParts leaving the parts in iteration order
SortParts_Unsorted(parts) == parts

SortParts(parts) == IF Len(parts) > 1 THEN SortOuter(parts, 1) ELSE parts

\* c.BuildQueryString(params), the range loop visiting params in "order"
BuildQueryString(c, params, order) ==
  IF Cardinality(params) = 0 THEN <<>>
  ELSE Join(SortParts(CollectParts(order)), <<"&">>)

\* ------------------------------------------------------------------------
\* BaseClient, its options and NewBaseClient
\* ------------------------------------------------------------------------
DefaultBaseURL == <<"https://api.thecompaniesapi.com">>

\* DefaultTimeout, in seconds
DefaultTimeout == 300

\* the Timeout of the http.Client object a caller passes in, in seconds
CallerTimeout == 10

\* an *http.Client is a reference: "default" is the object NewBaseClient
\* allocates, "custom" an object owned by the caller, "nil" the nil pointer
HTTPClientRefs == {"default", "custom", "nil"}

BaseClient(baseURL, apiKey, httpClient, visitorID) ==
  [baseURL |-> baseURL, apiKey |-> apiKey, httpClient |-> httpClient,
   visitorID |-> visitorID, built |-> TRUE]

NoClient ==
  [baseURL |-> <<>>, apiKey |-> <<>>, httpClient |-> "nil",
   visitorID |-> <<>>, built |-> FALSE]

Option(name, str, ref, secs) == [opt |-> name, str |-> str, ref |-> ref, secs |-> secs]

WithCustomBaseURL(baseURL) == Option("WithCustomBaseURL", baseURL, "nil", 0)

WithCustomHTTPClient(httpClient) == Option("WithCustomHTTPClient", <<>>, httpClient, 0)

WithTimeout(timeout) == Option("WithTimeout", <<>>, "nil", timeout)

WithVisitorID(visitorID) == Option("WithVisitorID", visitorID, "nil", 0)

\* option(client): the client and the http.Client objects after the option
\* ran; writing through a nil httpClient panics
ApplyOption(st, o) ==
  IF st.panicked THEN st
  ELSE CASE o.opt = "WithCustomBaseURL" ->
              [st EXCEPT !.c.baseURL = o.str]
         [] o.opt = "WithCustomHTTPClient" ->
              [st EXCEPT !.c.httpClient = o.ref]
         [] o.opt = "WithTimeout" ->
              IF st.c.httpClient = "nil" THEN [st EXCEPT !.panicked = TRUE]
              ELSE [st EXCEPT !.heap[st.c.httpClient] = o.secs]
         [] o.opt = "WithVisitorID" ->
              [st EXCEPT !.c.visitorID = o.str]

\* ApplyOptions running the options from the last to the first
RECURSIVE ApplyOptions_Reversed(_, _)
ApplyOptions_Reversed(st, options) ==
  IF options = <<>> THEN st
  ELSE ApplyOptions_Reversed(ApplyOption(st, options[Len(options)]),
                             SubSeq(options, 1, Len(options) - 1))

RECURSIVE ApplyOptions(_, _)
ApplyOptions(st, options) ==
  IF options = <<>> THEN st
  ELSE ApplyOptions(ApplyOption(st, Head(options)), Tail(options))

\* NewBaseClient allocating its http.Client without a Timeout
NewBaseClient_NoTimeout(apiKey, options, objs) ==
  ApplyOptions([c |-> BaseClient(DefaultBaseURL, apiKey, "default", <<>>),
                heap |-> [objs EXCEPT !["default"] = 0],
                panicked |-> FALSE],
               options)

\* NewBaseClient(apiKey, options...) run on the http.Client objects "objs":
\* [c, heap, panicked]
NewBaseClient(apiKey, options, objs) ==
  ApplyOptions([c |-> BaseClient(DefaultBaseURL, apiKey, "default", <<>>),
                heap |-> [objs EXCEPT !["default"] = DefaultTimeout],
                panicked |-> FALSE],
               options)

\* c.BaseURL()
BaseURL(c) == c.baseURL

\* c.HTTPClient(): the reference itself
HTTPClient(c) == c.httpClient

\* ------------------------------------------------------------------------
\* HTTP requests, responses and errors
\* ------------------------------------------------------------------------
\* http.Header.Set on a header given as a set of <<name, value>> pairs
HeaderSet(header, name, value) ==
  {p \in header : p[1] # name} \cup {<<name, value>>}

HeaderHas(header, name) == \E p \in header : p[1] = name

HeaderGet(header, name) == (CHOOSE p \in header : p[1] = name)[2]

Request(method, url, header, hasBody, body, via) ==
  [method |-> method, url |-> url, header |-> header,
   hasBody |-> hasBody, body |-> body, via |-> via]

NilError == [type |-> "nil", text |-> <<>>, Code |-> <<>>, Message |-> <<>>, Details |-> <<>>]

\* fmt.Errorf(text...)
Errorf(text) ==
  [type |-> "errorString", text |-> text, Code |-> <<>>, Message |-> <<>>, Details |-> <<>>]

\* &Error{Code, Message, Details}
APIError(code, message, details) ==
  [type |-> "*Error", text |-> <<>>, Code |-> code, Message |-> message, Details |-> details]

\* Error_Error always printing the details
Error_Error_AlwaysDetails(e) ==
  e.Code \o <<":", " ">> \o e.Message \o <<" ", "(">> \o e.Details \o <<")">>

\* (e *Error) Error()
Error_Error(e) ==
  IF e.Details # <<>>
  THEN e.Code \o <<":", " ">> \o e.Message \o <<" ", "(">> \o e.Details \o <<")">>
  ELSE e.Code \o <<":", " ">> \o e.Message

Bytes(text) == [isnil |-> FALSE, text |-> text]

NilBytes == [isnil |-> TRUE, text |-> <<>>]

\* what the transport does with a request: it fails (Do returns an error),
\* or delivers a status and then the body or a read error
Response(status, body) == [kind |-> "response", status |-> status, body |-> body]

DoError == [kind |-> "doError", status |-> 0, body |-> <<>>]

ReadError(status) == [kind |-> "readError", status |-> status, body |-> <<>>]

\* json.Unmarshal(data, &apiErr) into a zero Error: [ok, Code, Message, Details]
RECURSIVE DecodeFields(_, _)
DecodeFields(entries, acc) ==
  IF entries = <<>> THEN acc
  ELSE LET e == Head(entries)
           v == e.el[1]
           name == e.s
           isField == name \in {<<"c", "o", "d", "e">>,
                                <<"m", "e", "s", "s", "a", "g", "e">>,
                                <<"d", "e", "t", "a", "i", "l", "s">>}
           acc2 ==
             IF ~isField \/ v.kind = "nil" THEN acc
             ELSE IF v.kind # "string" THEN [acc EXCEPT !.ok = FALSE]
             ELSE IF name = <<"c", "o", "d", "e">> THEN [acc EXCEPT !.Code = v.s]
             ELSE IF name = <<"m", "e", "s", "s", "a", "g", "e">>
                  THEN [acc EXCEPT !.Message = v.s]
             ELSE [acc EXCEPT !.Details = v.s]
       IN DecodeFields(Tail(entries), acc2)

UnmarshalError(data) ==
  LET zero == [ok |-> TRUE, Code |-> <<>>, Message |-> <<>>, Details |-> <<>>]
      r == JSONDecode(data)
  IN IF ~r.ok THEN [zero EXCEPT !.ok = FALSE]
     ELSE IF r.val.kind = "nil" THEN zero
     ELSE IF r.val.kind = "map" THEN DecodeFields(r.val.el, zero)
     ELSE [zero EXCEPT !.ok = FALSE]

\* ------------------------------------------------------------------------
\* BaseClient.MakeRequest and BaseClient.MakeRequestWithQuery
\* ------------------------------------------------------------------------
\* net/http validMethod: a non-empty method is made of token characters
TokenChars ==
  AlnumChars \cup {"!", "#", "$", "%", "&", "'", "*", "+", "-", ".",
                   "^", "_", "grave", "|", "~"}

IsTokenChar(c) == c \in TokenChars

ValidMethod(method) == \A i \in 1..Len(method) : IsTokenChar(method[i])

\* the outcome of a call: what it returned or that it panicked, the requests
\* it handed to the HTTP client (sent) and the generated methods it called
Panic(sent) ==
  [body |-> NilBytes, err |-> NilError, sent |-> sent, calls |-> <<>>, panicked |-> TRUE]

Returns(body, err, sent) ==
  [body |-> body, err |-> err, sent |-> sent, calls |-> <<>>, panicked |-> FALSE]

\* MakeRequestHeader setting Tca-Visitor-Id without looking at the visitor ID
MakeRequestHeader_AlwaysVisitor(c, body) ==
  LET h1 == HeaderSet({}, "Authorization", <<"Basic ">> \o c.apiKey)
      h2 == IF body.kind # "nil"
            THEN HeaderSet(h1, "Content-Type", <<"application/json">>)
            ELSE h1
  IN HeaderSet(h2, "Tca-Visitor-Id", c.visitorID)

\* the header MakeRequest puts on its request
MakeRequestHeader(c, body) ==
  LET h1 == HeaderSet({}, "Authorization", <<"Basic ">> \o c.apiKey)
      h2 == IF body.kind # "nil"
            THEN HeaderSet(h1, "Content-Type", <<"application/json">>)
            ELSE h1
  IN IF c.visitorID # <<>> THEN HeaderSet(h2, "Tca-Visitor-Id", c.visitorID) ELSE h2

\* StatusError whose fallback error leaves the body out
StatusError_NoBody(status, responseBody) ==
  LET apiErr == UnmarshalError(responseBody)
  IN IF ~apiErr.ok
     THEN Errorf(<<"H", "T", "T", "P", " ">> \o FormatInt(status))
     ELSE APIError(apiErr.Code, apiErr.Message, apiErr.Details)

\* the error MakeRequest returns for a response of status >= 400
StatusError(status, responseBody) ==
  LET apiErr == UnmarshalError(responseBody)
  IN IF ~apiErr.ok
     THEN Errorf(<<"H", "T", "T", "P", " ">> \o FormatInt(status)
                 \o <<":", " ">> \o responseBody)
     ELSE APIError(apiErr.Code, apiErr.Message, apiErr.Details)

\* IsErrorStatus taking only server errors for errors
IsErrorStatus_ServerOnly(status) == status >= 500

\* resp.StatusCode >= 400
IsErrorStatus(status) == status >= 400

\* HandleResponse sending the request a second time when the transport failed
HandleResponse_RetryOnce(resp, sent) ==
  IF resp.kind = "doError"
  THEN Returns(NilBytes, Errorf(<<"failed to execute request: ">>), sent \o sent)
  ELSE IF resp.kind = "readError"
  THEN Returns(NilBytes, Errorf(<<"failed to read response body: ">>), sent)
  ELSE IF IsErrorStatus(resp.status)
  THEN Returns(NilBytes, StatusError(resp.status, resp.body), sent)
  ELSE Returns(Bytes(resp.body), NilError, sent)

\* HandleResponse taking a failed transport for an empty response
HandleResponse_SwallowsTransportError(resp, sent) ==
  IF resp.kind = "doError"
  THEN Returns(Bytes(<<>>), NilError, sent)
  ELSE IF resp.kind = "readError"
  THEN Returns(NilBytes, Errorf(<<"failed to read response body: ">>), sent)
  ELSE IF IsErrorStatus(resp.status)
  THEN Returns(NilBytes, StatusError(resp.status, resp.body), sent)
  ELSE Returns(Bytes(resp.body), NilError, sent)

\* HandleResponse refusing a successful body that is not JSON
HandleResponse_ValidatesJSON(resp, sent) ==
  IF resp.kind = "doError"
  THEN Returns(NilBytes, Errorf(<<"failed to execute request: ">>), sent)
  ELSE IF resp.kind = "readError"
  THEN Returns(NilBytes, Errorf(<<"failed to read response body: ">>), sent)
  ELSE IF IsErrorStatus(resp.status)
  THEN Returns(NilBytes, StatusError(resp.status, resp.body), sent)
  ELSE IF ~JSONDecode(resp.body).ok
  THEN Returns(NilBytes, Errorf(<<"failed to decode response body: ">>), sent)
  ELSE Returns(Bytes(resp.body), NilError, sent)

\* HandleResponse returning the body next to the error of an error status
HandleResponse_BodyWithError(resp, sent) ==
  IF resp.kind = "doError"
  THEN Returns(NilBytes, Errorf(<<"failed to execute request: ">>), sent)
  ELSE IF resp.kind = "readError"
  THEN Returns(NilBytes, Errorf(<<"failed to read response body: ">>), sent)
  ELSE IF IsErrorStatus(resp.status)
  THEN Returns(Bytes(resp.body), StatusError(resp.status, resp.body), sent)
  ELSE Returns(Bytes(resp.body), NilError, sent)

\* what MakeRequest does once the transport has answered; io.ReadAll gives a
\* non-nil slice, also for an empty body
HandleResponse(resp, sent) ==
  IF resp.kind = "doError"
  THEN Returns(NilBytes, Errorf(<<"failed to execute request: ">>), sent)
  ELSE IF resp.kind = "readError"
  THEN Returns(NilBytes, Errorf(<<"failed to read response body: ">>), sent)
  ELSE IF IsErrorStatus(resp.status)
  THEN Returns(NilBytes, StatusError(resp.status, resp.body), sent)
  ELSE Returns(Bytes(resp.body), NilError, sent)

\* MakeRequest passing the key as a query parameter too
MakeRequest_KeyInURL(c, method, path, body, resp) ==
  LET m == JSONMarshal(body)
  IN IF body.kind # "nil" /\ ~m.ok
     THEN Returns(NilBytes, Errorf(<<"failed to marshal request body: ">>), <<>>)
     ELSE IF ~ValidMethod(method)
     THEN Returns(NilBytes, Errorf(<<"failed to create request: ">>), <<>>)
     ELSE LET req == Request(method,
                             c.baseURL \o path
                               \o <<"?", "k", "e", "y", "=">> \o c.apiKey,
                             MakeRequestHeader(c, body),
                             body.kind # "nil",
                             IF body.kind # "nil" THEN m.text ELSE <<>>,
                             c.httpClient)
          IN IF c.httpClient = "nil" THEN Panic(<<>>)
             ELSE HandleResponse(resp, <<req>>)

\* c.MakeRequest(ctx, method, path, body), the transport answering "resp"
MakeRequest(c, method, path, body, resp) ==
  LET m == JSONMarshal(body)
  IN IF body.kind # "nil" /\ ~m.ok
     THEN Returns(NilBytes, Errorf(<<"failed to marshal request body: ">>), <<>>)
     ELSE IF ~ValidMethod(method)
     THEN Returns(NilBytes, Errorf(<<"failed to create request: ">>), <<>>)
     ELSE LET req == Request(method, c.baseURL \o path, MakeRequestHeader(c, body),
                             body.kind # "nil",
                             IF body.kind # "nil" THEN m.text ELSE <<>>,
                             c.httpClient)
          IN IF c.httpClient = "nil" THEN Panic(<<>>)
             ELSE HandleResponse(resp, <<req>>)

\* the path MakeRequestWithQuery hands to MakeRequest
FullPath(c, path, queryParams, order) ==
  IF Cardinality(queryParams) > 0
  THEN LET queryString == BuildQueryString(c, queryParams, order)
       IN IF queryString # <<>>
          THEN path \o (IF Contains(path, "?") THEN <<"&">> ELSE <<"?">>) \o queryString
          ELSE path
  ELSE path

MakeRequestWithQuery(c, method, path, queryParams, order, body, resp) ==
  MakeRequest(c, method, FullPath(c, path, queryParams, order), body, resp)

\* ------------------------------------------------------------------------
\* ApiClient and the facade over the generated client
\* ------------------------------------------------------------------------
\* the generated ClientWithResponses: its server, its HTTP client and the
\* request editors it runs on every request before sending it
Generated(server, httpClient, editors) ==
  [Server |-> server, Client |-> httpClient, RequestEditors |-> editors, built |-> TRUE]

NoGenerated ==
  [Server |-> <<>>, Client |-> "nil", RequestEditors |-> <<>>, built |-> FALSE]

\* NewClientWithResponses(server, WithHTTPClient(h), WithRequestEditorFn(e))
NewClientWithResponses(server, httpClient, editors) ==
  Generated(server, httpClient, editors)

\* a request editor that sets one header
Editor(name, value) == [name |-> name, value |-> value]

\* ApiClient whose request editor sends the key of the base client's default
ApiClient_EditorWithoutKey(apiKey, options, objs) ==
  LET base == NewBaseClient(apiKey, options, objs)
  IN [c |-> base.c, heap |-> base.heap, panicked |-> base.panicked,
      gen |-> IF base.panicked THEN NoGenerated
              ELSE NewClientWithResponses(
                     base.c.baseURL, base.c.httpClient,
                     <<Editor("Authorization", <<"Basic ">>)>>)]

\* ApiClient creating the generated client for the default server
ApiClient_DefaultServer(apiKey, options, objs) ==
  LET base == NewBaseClient(apiKey, options, objs)
  IN [c |-> base.c, heap |-> base.heap, panicked |-> base.panicked,
      gen |-> IF base.panicked THEN NoGenerated
              ELSE NewClientWithResponses(
                     DefaultBaseURL, base.c.httpClient,
                     <<Editor("Authorization", <<"Basic ">> \o apiKey)>>)]

\* ApiClient(apiKey, options...): [c, heap, panicked, gen]
ApiClient(apiKey, options, objs) ==
  LET base == NewBaseClient(apiKey, options, objs)
  IN [c |-> base.c, heap |-> base.heap, panicked |-> base.panicked,
      gen |-> IF base.panicked THEN NoGenerated
              ELSE NewClientWithResponses(
                     base.c.baseURL, base.c.httpClient,
                     <<Editor("Authorization", <<"Basic ">> \o apiKey)>>)]

\* the operations of the facade that the model follows
FacadeOps == {"FetchApiHealth", "FetchCompanyByEmail", "SearchCompaniesPost"}

OpMethod(op) ==
  IF op = "SearchCompaniesPost" THEN <<"P", "O", "S", "T">> ELSE <<"G", "E", "T">>

OpPath(op) == <<"/", "v", "2", "/", op>>

\* the query the generated request builder writes for the operation's params
OpQuery(op, arg) ==
  IF op = "FetchCompanyByEmail"
  THEN <<"?", "e", "m", "a", "i", "l", "=">> \o QueryEscape(arg)
  ELSE <<>>

\* the body the generated request builder writes for the operation's body
OpBody(op, arg) ==
  IF op = "SearchCompaniesPost"
  THEN JSONMarshal(StructV(<<EntryV(<<"p", "r", "o", "m", "p", "t">>, StringV(arg))>>)).text
  ELSE <<>>

RECURSIVE ApplyEditors(_, _)
ApplyEditors(header, editors) ==
  IF editors = <<>> THEN header
  ELSE ApplyEditors(HeaderSet(header, Head(editors).name, Head(editors).value),
                    Tail(editors))

\* the generated <Op>WithResponse: build the request, run the editors, send
GeneratedCall(gen, op, arg, resp) ==
  LET hasBody == op = "SearchCompaniesPost"
      h0 == IF hasBody THEN {<<"Content-Type", <<"application/json">>>>} ELSE {}
      req == Request(OpMethod(op), gen.Server \o OpPath(op) \o OpQuery(op, arg),
                     ApplyEditors(h0, gen.RequestEditors),
                     hasBody, OpBody(op, arg), gen.Client)
  IN IF gen.Client = "nil" THEN Panic(<<>>)
     ELSE IF resp.kind = "doError"
     THEN Returns(NilBytes, Errorf(<<"transport: ">>), <<req>>)
     ELSE IF resp.kind = "readError"
     THEN Returns(NilBytes, Errorf(<<"read: ">>), <<req>>)
     ELSE Returns(Bytes(resp.body), NilError, <<req>>)

\* FacadeCall forwarding every operation to the health check
FacadeCall_OtherOperation(gen, op, arg, resp) ==
  [GeneratedCall(gen, "FetchApiHealth", <<>>, resp)
     EXCEPT !.calls = <<[op |-> "FetchApiHealth", arg |-> <<>>]>>]

\* CompaniesAPIClient.<Op>(ctx, ...): return c.ClientWithResponses.<Op>WithResponse(ctx, ...)
FacadeCall(gen, op, arg, resp) ==
  [GeneratedCall(gen, op, arg, resp) EXCEPT !.calls = <<[op |-> op, arg |-> arg]>>]

\* ------------------------------------------------------------------------
\* Inputs
\* ------------------------------------------------------------------------
ApiKeys == {<<>>, <<"key-1">>, <<"key-2">>}

CustomBaseURL == <<"https://custom-api.example.com">>

OtherBaseURL == <<"https://test.api.com">>

VisitorIDs == {<<>>, <<"visitor-1">>}

Timeouts == {60}

OptionSet ==
  {WithCustomBaseURL(u) : u \in {CustomBaseURL, OtherBaseURL}}
  \cup {WithCustomHTTPClient(h) : h \in {"custom", "nil"}}
  \cup {WithTimeout(t) : t \in Timeouts}
  \cup {WithVisitorID(v) : v \in VisitorIDs}

OptionSeqs == UNION {[1..n -> OptionSet] : n \in 0..MaxOpts}

\* keys of a params map: two whose order changes under percent-encoding
\* ("{" is above "z", "%7B" is below it) and one with a space
Keys == {<<"a", "z">>, <<"a", "{">>, <<"p", " ", "q">>}

QueryValues ==
  { NilV, NilPtrV, NilSliceV, NilMapV,
    StringV(<<"a", " ", "&", "=">>),
    IntV(0 - 5), UintV(25), FloatV(15), BoolV(TRUE),
    SliceV(<<StringV(<<"x", "\"", "<">>), IntV(2)>>),
    MapV(<<EntryV(<<"s">>, StringV(<<"e", "q">>)), EntryV(<<"a">>, SliceV(<<BoolV(FALSE)>>))>>),
    StructV(<<EntryV(<<"n">>, FloatV(0 - 25)), EntryV(<<"f">>, NilSliceV)>>),
    SliceV(<<NaNV>>),
    PtrV(IntV(7)),
    PtrV(SliceV(<<StringV(<<"y">>)>>)),
    PtrV(PtrV(IntV(7))),
    PtrV(NilPtrV) }

\* the params maps over keys K
MapsOver(K, values) == {{EntryV(k, f[k]) : k \in K} : f \in [K -> values]}

ParamMaps ==
  UNION {MapsOver(K, QueryValues) : K \in {S \in SUBSET Keys : Cardinality(S) <= MaxParams}}

\* the params maps of the calls that go with a request
TransportValues ==
  {NilV, NilSliceV, StringV(<<"a", " ", "&", "=">>), SliceV(<<StringV(<<"y">>)>>)}

TransportParamMaps ==
  UNION {MapsOver(K, TransportValues) : K \in {S \in SUBSET Keys : Cardinality(S) <= 1}}

\* the arguments of a facade operation: none for the health check
FacadeArgs == {<<"a", "@", "b", ".", "c">>, <<"x", " ", "y">>}

ArgsOf(op) == IF op = "FetchApiHealth" THEN {<<>>} ELSE FacadeArgs

Methods == {<<"G", "E", "T">>, <<"G", " ", "T">>}

PlainPath == <<"/", "v", "2", "/", "c">>

Paths == {PlainPath, PlainPath \o <<"?", "s", "=", "1">>}

RequestBodies ==
  { NilV,
    StructV(<<EntryV(<<"q">>, StringV(<<"x">>))>>),
    SliceV(<<NaNV>>) }

CodeField == <<"c", "o", "d", "e">>

MessageField == <<"m", "e", "s", "s", "a", "g", "e">>

DetailsField == <<"d", "e", "t", "a", "i", "l", "s">>

\* the error objects a server reports, and the body it writes for one
WellFormedErrors ==
  { [Code |-> <<"E", "1">>, Message |-> <<"n", "o", " ", "\"", "x", "\"">>,
     Details |-> <<"d", "<">>],
    [Code |-> <<"E", "2">>, Message |-> <<"m">>, Details |-> <<>>] }

ErrorBody(fields) == JSONMarshal(StructV(fields)).text

ErrorObjectText(w) ==
  ErrorBody(<<EntryV(CodeField, StringV(w.Code)), EntryV(MessageField, StringV(w.Message))>>
            \o (IF w.Details # <<>> THEN <<EntryV(DetailsField, StringV(w.Details))>>
                ELSE <<>>))

\* bodies that are no error object: a field of the wrong type, text that is
\* not JSON, no text at all
UndecodableBodies ==
  { ErrorBody(<<EntryV(CodeField, IntV(5))>>),
    <<"o", "o", "p", "s">>,
    <<>> }

ResponseBodies ==
  {ErrorObjectText(w) : w \in WellFormedErrors}
  \cup UndecodableBodies
  \cup {ErrorBody(<<>>), Null}

Statuses == {200, 204, 304, 399, 400, 500}

Responses ==
  {Response(st, b) : st \in Statuses, b \in ResponseBodies}
  \cup {DoError, ReadError(200)}

\* ------------------------------------------------------------------------
\* State
\* ------------------------------------------------------------------------
VARIABLES
  client,     \* the BaseClient the last constructor call returned
  generated,  \* the generated client embedded in the CompaniesAPIClient
  heap,       \* Timeout of each http.Client object
  last,       \* the last call: its operation, arguments and results
  procs       \* the goroutines inside MakeRequest: their locals and position

vars == <<client, generated, heap, last, procs>>

NoCall ==
  [op |-> "none", apiKey |-> <<>>, options |-> <<>>, method |-> <<>>,
   path |-> <<>>, params |-> {}, body |-> NilV, arg |-> <<>>, resp |-> DoError,
   out |-> <<>>, ref |-> "nil", ret |-> Returns(NilBytes, NilError, <<>>)]

\* the http.Client objects before any constructor ran
InitialHeap == [default |-> DefaultTimeout, custom |-> CallerTimeout]

Goroutines == 1..MaxGoroutines

\* a goroutine that has not called yet: its arguments (ctx: the context,
\* "live" or "cancelled"), its locals (fullPath, req, got: the resp variable)
\* and, for the transport, the response it gave to this goroutine's request
\* (answer)
IdleProc ==
  [pc |-> "idle", ctx |-> "live", method |-> <<>>, path |-> <<>>, params |-> {},
   order |-> <<>>, body |-> NilV, req |-> <<>>, got |-> DoError, answer |-> <<>>,
   ret |-> Returns(NilBytes, NilError, <<>>)]

NoProcs == [g \in Goroutines |-> IdleProc]

Init ==
  /\ client = NoClient
  /\ generated = NoGenerated
  /\ heap = InitialHeap
  /\ last = NoCall
  /\ procs = NoProcs

\* The model follows one client from its construction on.  The program makes
\* its calls one after the other: a call starts once the caller has taken the
\* result of the previous one (Continue).

\* no call is under way
Idle == last = NoCall

\* no call is under way and no client has been built yet
NewClient == Idle /\ ~client.built

\* client := NewBaseClient(apiKey, options...)
DoNewBaseClient(apiKey, options) ==
  LET r == NewBaseClient(apiKey, options, heap)
  IN /\ NewClient
     /\ heap' = r.heap
     /\ client' = IF r.panicked THEN client ELSE r.c
     /\ generated' = IF r.panicked THEN generated ELSE NoGenerated
     /\ last' = [NoCall EXCEPT !.op = "NewBaseClient", !.apiKey = apiKey,
                               !.options = options,
                               !.ret = IF r.panicked THEN Panic(<<>>) ELSE NoCall.ret]
     /\ UNCHANGED procs

\* client, err := ApiClient(apiKey, options...)
DoApiClient(apiKey, options) ==
  LET r == ApiClient(apiKey, options, heap)
  IN /\ NewClient
     /\ heap' = r.heap
     /\ client' = IF r.panicked THEN client ELSE r.c
     /\ generated' = IF r.panicked THEN generated ELSE r.gen
     /\ last' = [NoCall EXCEPT !.op = "ApiClient", !.apiKey = apiKey,
                               !.options = options,
                               !.ret = IF r.panicked THEN Panic(<<>>) ELSE NoCall.ret]
     /\ UNCHANGED procs

\* client.BuildQueryString(params)
DoBuildQueryString(params, order) ==
  /\ Idle
  /\ client.built
  /\ last' = [NoCall EXCEPT !.op = "BuildQueryString", !.params = params,
                            !.out = BuildQueryString(client, params, order)]
  /\ UNCHANGED <<client, generated, heap, procs>>

\* client.MakeRequest(ctx, method, path, body); the facade hides it
DoMakeRequest(method, path, body, resp) ==
  /\ Idle
  /\ client.built /\ ~generated.built
  /\ last' = [NoCall EXCEPT !.op = "MakeRequest", !.method = method, !.path = path,
                            !.body = body, !.resp = resp,
                            !.ret = MakeRequest(client, method, path, body, resp)]
  /\ UNCHANGED <<client, generated, heap, procs>>

\* DoMakeRequestWithQuery building the full URL in the client's baseURL field
DoMakeRequestWithQuery_WritesBaseURL(method, path, queryParams, order, body, resp) ==
  /\ Idle
  /\ client.built /\ ~generated.built
  /\ last' = [NoCall EXCEPT !.op = "MakeRequestWithQuery", !.method = method,
                            !.path = path, !.params = queryParams,
                            !.body = body, !.resp = resp,
                            !.ret = MakeRequestWithQuery(client, method, path,
                                                         queryParams, order, body, resp)]
  /\ client' = [client EXCEPT
                  !.baseURL = client.baseURL \o FullPath(client, path, queryParams, order)]
  /\ UNCHANGED <<generated, heap, procs>>

\* client.MakeRequestWithQuery(ctx, method, path, queryParams, body)
DoMakeRequestWithQuery(method, path, queryParams, order, body, resp) ==
  /\ Idle
  /\ client.built /\ ~generated.built
  /\ last' = [NoCall EXCEPT !.op = "MakeRequestWithQuery", !.method = method,
                            !.path = path, !.params = queryParams,
                            !.body = body, !.resp = resp,
                            !.ret = MakeRequestWithQuery(client, method, path,
                                                         queryParams, order, body, resp)]
  /\ UNCHANGED <<client, generated, heap, procs>>

\* a facade method of the CompaniesAPIClient
DoFacadeCall(op, arg, resp) ==
  /\ Idle
  /\ generated.built
  /\ last' = [NoCall EXCEPT !.op = op, !.arg = arg, !.resp = resp,
                            !.ret = FacadeCall(generated, op, arg, resp)]
  /\ UNCHANGED <<client, generated, heap, procs>>

\* client.BaseURL(), of the BaseClient or of the CompaniesAPIClient
DoBaseURL ==
  /\ Idle
  /\ client.built
  /\ last' = [NoCall EXCEPT !.op = "BaseURL", !.out = BaseURL(client)]
  /\ UNCHANGED <<client, generated, heap, procs>>

\* client.HTTPClient()
DoHTTPClient ==
  /\ Idle
  /\ client.built /\ ~generated.built
  /\ last' = [NoCall EXCEPT !.op = "HTTPClient", !.ref = HTTPClient(client)]
  /\ UNCHANGED <<client, generated, heap, procs>>

\* err.Error() on the *Error the last call returned
DoErrorError ==
  /\ last.op \in {"MakeRequest", "MakeRequestWithQuery"}
  /\ last.ret.err.type = "*Error"
  /\ last' = [last EXCEPT !.op = "Error.Error", !.out = Error_Error(last.ret.err)]
  /\ UNCHANGED <<client, generated, heap, procs>>

\* the caller takes the result of the last call and goes on
Continue ==
  /\ last # NoCall
  /\ last' = NoCall
  /\ UNCHANGED <<client, generated, heap, procs>>

Next ==
  \/ NewClient /\ \E k \in ApiKeys, os \in OptionSeqs : DoNewBaseClient(k, os)
  \/ NewClient /\ \E k \in ApiKeys, os \in OptionSeqs : DoApiClient(k, os)
  \/ Idle /\ \E ps \in TransportParamMaps : \E o \in Perms(ps) : DoBuildQueryString(ps, o)
  \/ Idle /\ \E m \in Methods, b \in RequestBodies, r \in Responses :
               DoMakeRequest(m, PlainPath, b, r)
  \/ Idle /\ \E m \in Methods, p \in Paths, ps \in TransportParamMaps,
                 r \in Responses :
               \E o \in Perms(ps) : DoMakeRequestWithQuery(m, p, ps, o, NilV, r)
  \/ Idle /\ \E op \in FacadeOps, r \in Responses :
               \E a \in ArgsOf(op) : DoFacadeCall(op, a, r)
  \/ DoBaseURL
  \/ DoHTTPClient
  \/ DoErrorError
  \/ Continue

Spec == Init /\ [][Next]_vars

\* ------------------------------------------------------------------------
\* BuildQueryString on its own: every params map of ParamMaps, on clients of
\* different configurations
\* ------------------------------------------------------------------------
QSClients ==
  { NewBaseClient(<<"key-1">>, <<>>, InitialHeap).c,
    NewBaseClient(<<"key-2">>,
                  <<WithCustomBaseURL(CustomBaseURL), WithCustomHTTPClient("custom"),
                    WithVisitorID(<<"visitor-1">>)>>,
                  InitialHeap).c }

InitQS ==
  /\ client \in QSClients
  /\ generated = NoGenerated
  /\ heap = InitialHeap
  /\ last = NoCall
  /\ procs = NoProcs

NextQS ==
  \/ Idle /\ \E ps \in ParamMaps : \E o \in Perms(ps) : DoBuildQueryString(ps, o)
  \/ Continue

SpecQS == InitQS /\ [][NextQS]_vars

\* ------------------------------------------------------------------------
\* Goroutines sharing one client: each runs MakeRequestWithQuery step by
\* step, the steps of different goroutines interleaving freely
\* ------------------------------------------------------------------------
ConcParamMaps == {{}, {EntryV(<<"a", "z">>, StringV(<<"a", " ", "&", "=">>))}}

ConcResponses ==
  { Response(200, <<"o", "o", "p", "s">>),
    Response(400, ErrorBody(<<EntryV(CodeField, StringV(<<"E", "2">>)),
                              EntryV(MessageField, StringV(<<"m">>))>>)),
    DoError }

\* MakeRequestWithQuery up to http.NewRequestWithContext: the full path, the
\* marshaled body and the request, all locals of the goroutine
Begin(g, ctx, method, path, queryParams, order, body) ==
  LET fullPath == FullPath(client, path, queryParams, order)
      m == JSONMarshal(body)
      args == [procs[g] EXCEPT !.ctx = ctx, !.method = method, !.path = path,
                               !.params = queryParams, !.order = order, !.body = body]
  IN /\ procs[g].pc = "idle"
     /\ procs' = [procs EXCEPT ![g] =
          IF body.kind # "nil" /\ ~m.ok
          THEN [args EXCEPT !.pc = "returned",
                  !.ret = Returns(NilBytes, Errorf(<<"failed to marshal request body: ">>), <<>>)]
          ELSE IF ~ValidMethod(method)
          THEN [args EXCEPT !.pc = "returned",
                  !.ret = Returns(NilBytes, Errorf(<<"failed to create request: ">>), <<>>)]
          ELSE [args EXCEPT !.pc = "headers",
                  !.req = <<Request(method, client.baseURL \o fullPath, {},
                                    body.kind # "nil",
                                    IF body.kind # "nil" THEN m.text ELSE <<>>,
                                    "nil")>>]]
     /\ UNCHANGED <<client, generated, heap, last>>

\* the req.Header.Set calls
SetHeaders(g) ==
  /\ procs[g].pc = "headers"
  /\ procs' = [procs EXCEPT ![g].pc = "do",
                            ![g].req[1].header = MakeRequestHeader(client, procs[g].body)]
  /\ UNCHANGED <<client, generated, heap, last>>

\* c.httpClient.Do(req): the request goes out through the client's HTTP client
Do(g) ==
  /\ procs[g].pc = "do"
  /\ procs' = [procs EXCEPT ![g] =
       IF client.httpClient = "nil"
       THEN [@ EXCEPT !.pc = "returned", !.ret = Panic(<<>>)]
       ELSE [@ EXCEPT !.pc = "waiting", !.req[1].via = client.httpClient]]
  /\ UNCHANGED <<client, generated, heap, last>>

\* Deliver keeping the response in one place shared by the waiting callers
Deliver_Shared(ps, g, resp) ==
  [h \in DOMAIN ps |->
     IF h = g THEN [ps[h] EXCEPT !.pc = "answered", !.got = resp, !.answer = <<resp>>]
     ELSE IF ps[h].pc = "waiting" THEN [ps[h] EXCEPT !.pc = "answered", !.got = resp]
     ELSE ps[h]]

\* resp, err := c.httpClient.Do(req): Do returns to the goroutine that called
\* it, into its local variables
Deliver(ps, g, resp) ==
  [ps EXCEPT ![g].pc = "answered", ![g].got = resp, ![g].answer = <<resp>>]

\* the transport answers the request of goroutine g; the request carries the
\* context (http.NewRequestWithContext), and once that is cancelled Do or
\* the read of the body ends with the context's error
Answer(g, resp) ==
  /\ procs[g].pc = "waiting"
  /\ procs[g].ctx = "cancelled" => resp.kind \in {"doError", "readError"}
  /\ procs' = Deliver(procs, g, resp)
  /\ UNCHANGED <<client, generated, heap, last>>

\* MakeRequest from the return of Do to its own return
Finish(g) ==
  /\ procs[g].pc = "answered"
  /\ procs' = [procs EXCEPT ![g].pc = "returned",
                            ![g].ret = HandleResponse(procs[g].got, procs[g].req)]
  /\ UNCHANGED <<client, generated, heap, last>>

InitConcurrent ==
  /\ client \in QSClients
  /\ generated = NoGenerated
  /\ heap = InitialHeap
  /\ last = NoCall
  /\ procs = NoProcs

NextConcurrent ==
  \/ \E g \in Goroutines, m \in Methods, ps \in ConcParamMaps, b \in RequestBodies :
       \E o \in Perms(ps) : Begin(g, "live", m, PlainPath, ps, o, b)
  \/ \E g \in Goroutines : SetHeaders(g)
  \/ \E g \in Goroutines : Do(g)
  \/ \E g \in Goroutines, r \in ConcResponses : Answer(g, r)
  \/ \E g \in Goroutines : Finish(g)

SpecConcurrent == InitConcurrent /\ [][NextConcurrent]_vars

\* ------------------------------------------------------------------------
\* Cancellation: the caller cancels the context of a call that has started
\* and whose response the transport has not delivered yet, or passes a
\* context that is cancelled already
\* ------------------------------------------------------------------------
Cancel(g) ==
  /\ procs[g].pc \in {"headers", "do", "waiting"}
  /\ procs[g].ctx = "live"
  /\ procs' = [procs EXCEPT ![g].ctx = "cancelled"]
  /\ UNCHANGED <<client, generated, heap, last>>

NextCancel ==
  \/ \E g \in Goroutines, ctx \in {"live", "cancelled"} :
       Begin(g, ctx, <<"G", "E", "T">>, PlainPath, {}, <<>>, NilV)
  \/ \E g \in Goroutines : SetHeaders(g)
  \/ \E g \in Goroutines : Do(g)
  \/ \E g \in Goroutines, r \in ConcResponses \cup {ReadError(200)} : Answer(g, r)
  \/ \E g \in Goroutines : Finish(g)
  \/ \E g \in Goroutines : Cancel(g)

SpecCancel == InitConcurrent /\ [][NextCancel]_vars

\* ------------------------------------------------------------------------
\* Reading a query string back
\* ------------------------------------------------------------------------
\* the text after the first sep of s (empty if there is none)
RECURSIVE AfterFirst(_, _)
AfterFirst(s, sep) ==
  IF s = <<>> THEN <<>>
  ELSE IF Head(s) = sep THEN Tail(s)
  ELSE AfterFirst(Tail(s), sep)

RECURSIVE SplitAll(_, _)
SplitAll(s, sep) ==
  IF ~Contains(s, sep) THEN <<s>>
  ELSE <<SplitFirst(s, sep)>> \o SplitAll(AfterFirst(s, sep), sep)

\* the "key=value" parts of a query string
PartsOf(qs) == IF qs = <<>> THEN <<>> ELSE SplitAll(qs, "&")

PartKey(part) == QueryUnescape(SplitFirst(part, "="))

PartValue(part) == AfterFirst(part, "=")

\* the positions of the parts that carry key k
PartsFor(parts, k) == {i \in 1..Len(parts) : PartKey(parts[i]) = k}

\* the value part emitted for key k (when there is exactly one)
ValueFor(parts, k) == PartValue(parts[CHOOSE i \in PartsFor(parts, k) : TRUE])

\* a value the caller left out: nil of any type
IsAbsent(v) == v.kind = "nil" \/ (v.kind \in {"ptr", "slice", "map"} /\ v.isnil)

\* text made of the characters url.QueryEscape lets through or produces,
\* every "%" followed by two hex digits
IsPercentEncoded(t) ==
  /\ \A i \in 1..Len(t) : t[i] \in UnreservedChars \cup {"%", "+"}
  /\ \A i \in 1..Len(t) :
       t[i] = "%" => i + 2 <= Len(t) /\ IsHex(t[i + 1]) /\ IsHex(t[i + 2])

QSCalled == last.op = "BuildQueryString"

\* ------------------------------------------------------------------------
\* C1: BuildQueryString emits no part for a key whose value is absent (untyped
\* nil, nil pointer, nil slice, nil map) and exactly one part for every
\* other key.
\* ------------------------------------------------------------------------
C1_AbsentOmitted ==
  QSCalled =>
    LET parts == PartsOf(last.out)
    IN /\ \A e \in last.params :
            Cardinality(PartsFor(parts, e.s)) = (IF IsAbsent(e.el[1]) THEN 0 ELSE 1)
       /\ Len(parts) = Cardinality({e \in last.params : ~IsAbsent(e.el[1])})

\* ------------------------------------------------------------------------
\* C2: the value part of a structured value is percent-encoded JSON that
\* decodes back to the value.
\* ------------------------------------------------------------------------
\* a Go value seen as JSON data: what decoding its JSON text must give
RECURSIVE ToJSON(_)
ToJSON(v) ==
  CASE v.kind \in {"int", "uint"} -> FloatV(10 * v.n)
    [] v.kind \in {"slice", "array"} ->
         IF v.isnil THEN NilV ELSE SliceV([i \in 1..Len(v.el) |-> ToJSON(v.el[i])])
    [] v.kind = "map" ->
         IF v.isnil THEN NilV
         ELSE LET es == SortEntries(v.el)
              IN MapV([i \in 1..Len(es) |-> ToJSON(es[i])])
    [] v.kind = "struct" -> MapV([i \in 1..Len(v.el) |-> ToJSON(v.el[i])])
    [] v.kind = "entry" -> EntryV(v.s, ToJSON(v.el[1]))
    [] v.kind = "ptr" -> IF v.isnil THEN NilV ELSE ToJSON(v.el[1])
    [] OTHER -> v

\* the value holds nothing JSON has no text for (a NaN or infinite float)
RECURSIVE JSONRepresentable(_)
JSONRepresentable(v) ==
  /\ ~(v.kind = "float" /\ v.s # <<>>)
  /\ \A i \in 1..Len(v.el) : JSONRepresentable(v.el[i])

\* the structured value an entry carries, directly or behind one pointer
Pointee(v) == IF v.kind = "ptr" /\ ~v.isnil THEN v.el[1] ELSE v

CarriesStructured(e) ==
  ~IsAbsent(e.el[1]) /\ IsStructured(Pointee(e.el[1]).kind)

RoundTrips(parts, e) ==
  /\ Cardinality(PartsFor(parts, e.s)) = 1
  /\ LET part == ValueFor(parts, e.s)
         d == JSONDecode(QueryUnescape(part))
     IN IsPercentEncoded(part) /\ d.ok /\ d.val = ToJSON(Pointee(e.el[1]))

\* C2 as claimed: every structured value round-trips through its value part
C2_StructuredRoundTrip ==
  QSCalled =>
    LET parts == PartsOf(last.out)
    IN \A e \in last.params : CarriesStructured(e) => RoundTrips(parts, e)

\* C2 amended: every structured value that JSON can represent round-trips
\* through its value part: the part is percent-encoded valid JSON text whose
\* decoding is the value
C2_RepresentableRoundTrip ==
  QSCalled =>
    LET parts == PartsOf(last.out)
    IN \A e \in last.params :
         CarriesStructured(e) /\ JSONRepresentable(e.el[1]) => RoundTrips(parts, e)

C2_Witness ==
  /\ QSCalled
  /\ \E e \in last.params :
       /\ CarriesStructured(e) /\ JSONRepresentable(e.el[1])
       /\ Pointee(e.el[1]).kind = "map" /\ Len(Pointee(e.el[1]).el) = 2
       /\ Len(ValueFor(PartsOf(last.out), e.s)) > 6

\* ------------------------------------------------------------------------
\* C3: the value part of a primitive value (string, signed or unsigned
\* integer, float, bool) is the percent-encoding of its canonical text: the
\* string itself, the decimal digits of the number, "true" or "false".
\* ------------------------------------------------------------------------
\* t is the decimal text of the number whose tenths are n: optional "-",
\* digits without a leading zero, a fraction only when the number has one
IsDecimalOf(t, tenths) ==
  /\ t # <<>>
  /\ LET r == ParseNumber(t)
         digits == IF Head(t) = "-" THEN Tail(t) ELSE t
     IN /\ r.ok /\ r.rest = <<>> /\ r.val.n = tenths
        /\ (Head(t) = "-") = (tenths < 0)
        /\ (Len(digits) > 1 /\ digits[1] = "0") => digits[2] = "."
        /\ Contains(t, ".") = (tenths % 10 # 0)

CanonicalText(t, v) ==
  CASE v.kind = "string" -> t = v.s
    [] v.kind \in {"int", "uint"} -> IsDecimalOf(t, 10 * v.n)
    [] v.kind = "float" -> IF v.s # <<>> THEN t = v.s ELSE IsDecimalOf(t, v.n)
    [] v.kind = "bool" ->
         t = (IF v.n = 1 THEN <<"t", "r", "u", "e">> ELSE <<"f", "a", "l", "s", "e">>)

IsPrimitive(v) == v.kind \in {"string", "int", "uint", "float", "bool"}

C3_PrimitiveCanonical ==
  QSCalled =>
    LET parts == PartsOf(last.out)
    IN \A e \in last.params :
         IsPrimitive(e.el[1]) =>
           /\ Cardinality(PartsFor(parts, e.s)) = 1
           /\ LET part == ValueFor(parts, e.s)
              IN /\ IsPercentEncoded(part)
                 /\ CanonicalText(QueryUnescape(part), e.el[1])

C3_Witness ==
  /\ QSCalled
  /\ \E e, f \in last.params :
       /\ e.el[1].kind = "int" /\ e.el[1].n < 0
       /\ f.el[1].kind = "string" /\ Contains(f.el[1].s, "&")
       /\ Contains(ValueFor(PartsOf(last.out), f.s), "%")

\* ------------------------------------------------------------------------
\* C4: BuildQueryString is deterministic: a second call with the same params
\* returns the same string, whatever order the range loop visits the map in
\* and whatever the configuration of the client it is called on.
\* ------------------------------------------------------------------------
C4_Deterministic ==
  QSCalled =>
    \A c2 \in QSClients : \A o2 \in Perms(last.params) :
      BuildQueryString(c2, last.params, o2) = last.out

C4_Witness ==
  /\ QSCalled
  /\ Cardinality(last.params) >= 2
  /\ Len(PartsOf(last.out)) >= 2
  /\ \E c2 \in QSClients : c2 # client

\* ------------------------------------------------------------------------
\* C5: BuildQueryString emits the parameters in ascending order of their
\* (unencoded) keys, the order of url.Values.Encode.
\* ------------------------------------------------------------------------
C5_SortedByKey ==
  QSCalled =>
    LET parts == PartsOf(last.out)
    IN \A i, j \in 1..Len(parts) :
         i < j => ~StrGT(PartKey(parts[i]), PartKey(parts[j]))

\* ------------------------------------------------------------------------
\* Reading a call on the transport
\* ------------------------------------------------------------------------
TransportCalled == last.op \in {"MakeRequest", "MakeRequestWithQuery"}

FacadeCalled == last.op \in FacadeOps

Constructed == last.op \in {"NewBaseClient", "ApiClient"} /\ ~last.ret.panicked

\* the call sent its request and the transport delivered a response
Answered == Len(last.ret.sent) = 1 /\ last.resp.kind = "response"

\* sub occurs in t
ContainsSeq(t, sub) ==
  \E i \in 0..(Len(t) - Len(sub)) : SubSeq(t, i + 1, i + Len(sub)) = sub

\* the three digits of an HTTP status
StatusDigits(status) ==
  <<HexDigits[(status \div 100) + 1], HexDigits[((status \div 10) % 10) + 1],
    HexDigits[(status % 10) + 1]>>

IsStructuredError(err, w) ==
  /\ err.type = "*Error"
  /\ err.Code = w.Code /\ err.Message = w.Message /\ err.Details = w.Details

\* ------------------------------------------------------------------------
\* C6: a response with an error status and a well-formed error body makes
\* MakeRequest return an *Error with the body's code, message and details.
\* ------------------------------------------------------------------------
\* C6 as claimed: for every status that is not 2xx
C6_NonSuccessStructured ==
  TransportCalled /\ Answered /\ last.resp.status \notin 200..299 =>
    \A w \in WellFormedErrors :
      last.resp.body = ErrorObjectText(w) =>
        last.ret.body.isnil /\ IsStructuredError(last.ret.err, w)

\* C6 amended: for every status of 400 or above
C6_ErrorStatusStructured ==
  TransportCalled /\ Answered /\ last.resp.status >= 400 =>
    \A w \in WellFormedErrors :
      last.resp.body = ErrorObjectText(w) =>
        last.ret.body.isnil /\ IsStructuredError(last.ret.err, w)

C6_Witness ==
  /\ TransportCalled /\ Answered /\ last.resp.status = 400
  /\ \E w \in WellFormedErrors :
       w.Details # <<>> /\ last.resp.body = ErrorObjectText(w)
  /\ last.ret.err.type = "*Error"

\* ------------------------------------------------------------------------
\* C7: a response with an error status and a body that is no error object
\* makes MakeRequest return a plain error (no *Error) whose text holds the
\* status code and the raw body.
\* ------------------------------------------------------------------------
IsGenericError(err, status, body) ==
  /\ err.type = "errorString"
  /\ ContainsSeq(err.text, StatusDigits(status))
  /\ ContainsSeq(err.text, body)

\* C7 as claimed: for every status that is not 2xx
C7_NonSuccessGeneric ==
  /\ TransportCalled /\ Answered /\ last.resp.status \notin 200..299
  /\ last.resp.body \in UndecodableBodies
  => last.ret.body.isnil /\ IsGenericError(last.ret.err, last.resp.status, last.resp.body)

\* C7 amended: for every status of 400 or above
C7_ErrorStatusGeneric ==
  /\ TransportCalled /\ Answered /\ last.resp.status >= 400
  /\ last.resp.body \in UndecodableBodies
  => last.ret.body.isnil /\ IsGenericError(last.ret.err, last.resp.status, last.resp.body)

C7_Witness ==
  /\ TransportCalled /\ Answered /\ last.resp.status = 500
  /\ last.resp.body = <<"o", "o", "p", "s">>
  /\ last.ret.err.type = "errorString"

\* ------------------------------------------------------------------------
\* C8: every request the client sends (MakeRequest, MakeRequestWithQuery,
\* every facade operation) carries Authorization: "Basic " + the API key
\* given at construction.
\* ------------------------------------------------------------------------
HasHeader(req, name, value) ==
  {p \in req.header : p[1] = name} = {<<name, value>>}

C8_Authorization ==
  /\ Constructed => client.apiKey = last.apiKey
  /\ \A i \in 1..Len(last.ret.sent) :
       HasHeader(last.ret.sent[i], "Authorization", <<"Basic ">> \o client.apiKey)

C8_Witness ==
  /\ FacadeCalled /\ Len(last.ret.sent) = 1
  /\ client.apiKey = <<"key-2">>
  /\ HasHeader(last.ret.sent[1], "Authorization", <<"Basic ", "key-2">>)

\* ------------------------------------------------------------------------
\* C9: a facade operation of a client built with ApiClient(key,
\* WithVisitorID(v)), v non-empty, sends its request with Tca-Visitor-Id: v.
\* ------------------------------------------------------------------------
C9_FacadeVisitorID ==
  FacadeCalled /\ client.visitorID # <<>> =>
    \A i \in 1..Len(last.ret.sent) :
      HasHeader(last.ret.sent[i], "Tca-Visitor-Id", client.visitorID)

\* ------------------------------------------------------------------------
\* C10: a request sent by MakeRequest or MakeRequestWithQuery carries
\* Tca-Visitor-Id, with the configured value, if and only if the client was
\* built with a non-empty visitor ID.
\* ------------------------------------------------------------------------
\* the visitor ID a sequence of options configures: that of its last
\* WithVisitorID, none without one
RECURSIVE ConfiguredVisitorID(_)
ConfiguredVisitorID(options) ==
  IF options = <<>> THEN <<>>
  ELSE LET o == options[Len(options)]
       IN IF o.opt = "WithVisitorID" THEN o.str
          ELSE ConfiguredVisitorID(SubSeq(options, 1, Len(options) - 1))

C10_VisitorHeader ==
  /\ Constructed => client.visitorID = ConfiguredVisitorID(last.options)
  /\ TransportCalled =>
       \A i \in 1..Len(last.ret.sent) :
         IF client.visitorID # <<>>
         THEN HasHeader(last.ret.sent[i], "Tca-Visitor-Id", client.visitorID)
         ELSE ~HeaderHas(last.ret.sent[i].header, "Tca-Visitor-Id")

C10_Witness ==
  /\ last.op = "MakeRequestWithQuery" /\ Len(last.ret.sent) = 1
  /\ client.visitorID = <<"visitor-1">>
  /\ HasHeader(last.ret.sent[1], "Tca-Visitor-Id", <<"visitor-1">>)

\* ------------------------------------------------------------------------
\* C11: a call of MakeRequest or MakeRequestWithQuery hands at most one
\* request to the HTTP client, whatever the outcome; it hands over none and
\* returns an error when the body cannot be marshaled or the method is
\* invalid; when the transport fails it returns the error after that one
\* request, without a retry.
\* ------------------------------------------------------------------------
C11_AtMostOneRequest ==
  TransportCalled /\ ~last.ret.panicked =>
    /\ Len(last.ret.sent) <= 1
    /\ (~JSONRepresentable(last.body) \/ Contains(last.method, " ")) =>
         last.ret.sent = <<>> /\ last.ret.err.type = "errorString"
    /\ (Len(last.ret.sent) = 1 /\ last.resp.kind = "doError") =>
         last.ret.err.type = "errorString" /\ last.ret.body.isnil

C11_Witness ==
  /\ last.op = "MakeRequest" /\ last.resp.kind = "doError"
  /\ Len(last.ret.sent) = 1 /\ last.ret.err.type = "errorString"
  /\ last.body.kind = "struct"

\* ------------------------------------------------------------------------
\* C12: a facade operation that receives a response of status >= 400 with a
\* well-formed error body returns a non-nil *Error carrying the body's code
\* and message.
\* ------------------------------------------------------------------------
C12_FacadeStructuredError ==
  FacadeCalled /\ Answered /\ last.resp.status >= 400 =>
    \A w \in WellFormedErrors :
      last.resp.body = ErrorObjectText(w) =>
        /\ last.ret.err.type = "*Error"
        /\ last.ret.err.Code = w.Code /\ last.ret.err.Message = w.Message

\* ------------------------------------------------------------------------
\* C13: a facade method makes exactly one call to the generated method of
\* its own operation with the arguments it was given, returns what that call
\* returns, and leaves the client as it was.
\* ------------------------------------------------------------------------
Forwarded ==
  LET g == GeneratedCall(generated, last.op, last.arg, last.resp)
  IN /\ last.ret.calls = <<[op |-> last.op, arg |-> last.arg]>>
     /\ last.ret.body = g.body /\ last.ret.err = g.err
     /\ last.ret.sent = g.sent /\ last.ret.panicked = g.panicked

C13_FacadeForwards ==
  [][FacadeCalled' => Forwarded' /\ UNCHANGED <<client, generated, heap>>]_vars

C13_Witness ==
  /\ last.op = "SearchCompaniesPost" /\ last.arg = <<"x", " ", "y">>
  /\ last.ret.calls = <<[op |-> "SearchCompaniesPost", arg |-> <<"x", " ", "y">>]>>
  /\ Len(last.ret.sent) = 1 /\ last.resp.kind = "response" /\ ~last.ret.body.isnil

\* ------------------------------------------------------------------------
\* C14: once a constructor has returned the client, no step writes its API
\* key, base URL, visitor ID or HTTP-client reference, nor the configuration
\* the generated client was built with.
\* ------------------------------------------------------------------------
C14_ConfigurationFrozen ==
  [][client.built => client' = client /\ generated' = generated]_vars

C14_Witness ==
  /\ last.op = "MakeRequestWithQuery" /\ Len(last.ret.sent) = 1
  /\ last.params # {}
  /\ client.baseURL = CustomBaseURL /\ client.visitorID # <<>>

\* ------------------------------------------------------------------------
\* C15: whatever the interleaving of the calls of several goroutines on one
\* client, each call's request is made of its own method, path, query and
\* body and of the client's configuration, and each call returns the outcome
\* of the response the transport gave to its own request.
\* ------------------------------------------------------------------------
OwnRequest(p) ==
  \A i \in 1..Len(p.req) :
    /\ p.req[i].method = p.method
    /\ p.req[i].url = client.baseURL \o FullPath(client, p.path, p.params, p.order)
    /\ p.req[i].hasBody = (p.body.kind # "nil")
    /\ p.req[i].hasBody => JSONDecode(p.req[i].body).val = ToJSON(p.body)
    /\ p.pc \notin {"idle", "headers"} =>
         HasHeader(p.req[i], "Authorization", <<"Basic ">> \o client.apiKey)

OwnOutcome(p) ==
  p.pc = "returned" =>
    /\ p.ret.sent = (IF p.answer = <<>> THEN <<>> ELSE p.req)
    /\ \A i \in 1..Len(p.answer) :
         LET a == p.answer[i]
         IN /\ p.ret = MakeRequestWithQuery(client, p.method, p.path, p.params,
                                            p.order, p.body, a)
            /\ a.kind = "response" /\ a.status < 400 =>
                 p.ret.body = Bytes(a.body) /\ p.ret.err = NilError
            /\ a.kind = "response" /\ a.status >= 400 =>
                 p.ret.body.isnil /\ p.ret.err.type = "*Error"
            /\ a.kind = "doError" => p.ret.body.isnil /\ p.ret.err.type = "errorString"
    /\ p.answer = <<>> => p.ret.body.isnil /\ p.ret.err.type = "errorString"

C15_CallsIndependent ==
  \A g \in Goroutines :
    /\ OwnRequest(procs[g])
    /\ OwnOutcome(procs[g])
    /\ procs[g].pc = "answered" => procs[g].answer = <<procs[g].got>>

C15_Witness ==
  \E g, h \in Goroutines :
    /\ g # h
    /\ procs[g].pc = "returned" /\ procs[h].pc = "returned"
    /\ procs[g].answer # <<>> /\ procs[h].answer # <<>>
    /\ procs[g].answer # procs[h].answer
    /\ procs[g].params # procs[h].params
    /\ procs[g].ret # procs[h].ret

\* ------------------------------------------------------------------------
\* C16: for a response of 2xx status MakeRequest returns the bytes of the
\* response body as they are and a nil error, whatever the body.
\* ------------------------------------------------------------------------
C16_SuccessReturnsBody ==
  TransportCalled /\ Answered /\ last.resp.status \in 200..299 =>
    /\ last.ret.body = Bytes(last.resp.body)
    /\ last.ret.err = NilError

C16_Witness ==
  /\ TransportCalled /\ Answered /\ last.resp.status = 204
  /\ last.resp.body = <<"o", "o", "p", "s">>
  /\ last.ret.body = Bytes(<<"o", "o", "p", "s">>)

\* ------------------------------------------------------------------------
\* C17: every return of MakeRequest and MakeRequestWithQuery carries a
\* non-nil error if and only if the body it carries is nil.
\* ------------------------------------------------------------------------
C17_BodyXorError ==
  TransportCalled /\ ~last.ret.panicked =>
    ((last.ret.err.type # "nil") <=> last.ret.body.isnil)

C17_Witness ==
  /\ TransportCalled /\ Answered /\ last.resp.status = 200
  /\ last.resp.body = <<>>
  /\ ~last.ret.body.isnil /\ last.ret.err.type = "nil"

\* ------------------------------------------------------------------------
\* C18: a client built with WithTimeout(t) has an HTTP client whose timeout
\* is t, whatever the other options and their order.
\* ------------------------------------------------------------------------
GivenTimeouts(options) ==
  {options[i].secs : i \in {j \in 1..Len(options) : options[j].opt = "WithTimeout"}}

C18_TimeoutApplied ==
  Constructed /\ GivenTimeouts(last.options) # {} =>
    /\ client.httpClient # "nil"
    /\ heap[client.httpClient] \in GivenTimeouts(last.options)

\* ------------------------------------------------------------------------
\* C19: NewBaseClient applies its options in the order given: BaseURL()
\* returns the URL of the last WithCustomBaseURL (the default without one)
\* and HTTPClient() the client of the last WithCustomHTTPClient (the one
\* NewBaseClient allocates without one).
\* ------------------------------------------------------------------------
\* the value field f of the last option named opt, default without one
RECURSIVE LastOption(_, _, _, _)
LastOption(options, opt, f, default) ==
  IF options = <<>> THEN default
  ELSE LET o == options[Len(options)]
       IN IF o.opt = opt THEN o[f]
          ELSE LastOption(SubSeq(options, 1, Len(options) - 1), opt, f, default)

C19_OptionsInOrder ==
  last.op = "NewBaseClient" /\ ~last.ret.panicked =>
    /\ BaseURL(client) = LastOption(last.options, "WithCustomBaseURL", "str", DefaultBaseURL)
    /\ HTTPClient(client) = LastOption(last.options, "WithCustomHTTPClient", "ref", "default")

C19_Witness ==
  /\ last.op = "NewBaseClient" /\ ~last.ret.panicked /\ Len(last.options) = 2
  /\ last.options[1].opt = "WithCustomBaseURL" /\ last.options[2].opt = "WithCustomBaseURL"
  /\ last.options[1].str # last.options[2].str
  /\ BaseURL(client) = last.options[2].str

\* ------------------------------------------------------------------------
\* C20: NewBaseClient returns a client, without panicking, for every API
\* key and every sequence of options.
\* ------------------------------------------------------------------------
C20_NeverPanics ==
  last.op = "NewBaseClient" =>
    ~last.ret.panicked /\ client.built /\ client.apiKey = last.apiKey

\* ------------------------------------------------------------------------
\* C21: a client built with no options has the base URL
\* https://api.thecompaniesapi.com, an HTTP client with a timeout of 300
\* seconds and no visitor ID; so has the generated client of ApiClient.
\* ------------------------------------------------------------------------
C21_Defaults ==
  Constructed /\ last.options = <<>> =>
    /\ BaseURL(client) = <<"https://api.thecompaniesapi.com">>
    /\ HTTPClient(client) # "nil" /\ heap[HTTPClient(client)] = 300
    /\ client.visitorID = <<>>
    /\ last.op = "ApiClient" =>
         /\ generated.Server = <<"https://api.thecompaniesapi.com">>
         /\ generated.Client # "nil" /\ heap[generated.Client] = 300

C21_Witness ==
  /\ last.op = "ApiClient" /\ last.options = <<>> /\ ~last.ret.panicked
  /\ generated.built /\ client.apiKey = <<"key-1">>

\* ------------------------------------------------------------------------
\* C22: MakeRequestWithQuery requests baseURL + path + sep +
\* BuildQueryString(params), sep being "&" when path holds a "?" and "?"
\* otherwise, and baseURL + path alone when params is empty or holds absent
\* values only.
\* ------------------------------------------------------------------------
C22_QueryURL ==
  last.op = "MakeRequestWithQuery" =>
    \A i \in 1..Len(last.ret.sent) :
      LET sep == IF Contains(last.path, "?") THEN <<"&">> ELSE <<"?">>
      IN IF \A e \in last.params : IsAbsent(e.el[1])
         THEN last.ret.sent[i].url = client.baseURL \o last.path
         ELSE \A o \in Perms(last.params) :
                last.ret.sent[i].url =
                  client.baseURL \o last.path \o sep
                    \o BuildQueryString(client, last.params, o)

C24_ErrorText ==
  last.op = "Error.Error" =>
    LET e == last.ret.err
        head == e.Code \o <<":", " ">> \o e.Message
    IN /\ HasPrefix(last.out, head)
       /\ e.Details = <<>> => Len(last.out) = Len(head)
       /\ e.Details # <<>> =>
            /\ Len(last.out) = Len(head) + Len(e.Details) + 3
            /\ SubSeq(last.out, Len(head) + 1, Len(head) + 2) = <<" ", "(">>
            /\ SubSeq(last.out, Len(head) + 3, Len(last.out) - 1) = e.Details
            /\ last.out[Len(last.out)] = ")"

C24_Witness ==
  /\ last.op = "Error.Error"
  /\ last.ret.err.Code = <<"E", "1">> /\ last.ret.err.Details = <<"d", "<">>
  /\ last.out[Len(last.out)] = ")"

\* ------------------------------------------------------------------------
\* C25: the client ApiClient returns reports the base URL its options
\* configure, its generated client is created with that base URL and with
\* the http.Client of the base client, and every facade request goes to
\* that base URL through that http.Client.
\* ------------------------------------------------------------------------
C25_FacadeConfiguration ==
  /\ last.op = "ApiClient" /\ ~last.ret.panicked =>
       /\ generated.built
       /\ BaseURL(client) =
            LastOption(last.options, "WithCustomBaseURL", "str",
                       <<"https://api.thecompaniesapi.com">>)
       /\ HTTPClient(client) =
            LastOption(last.options, "WithCustomHTTPClient", "ref", "default")
  /\ generated.built =>
       generated.Server = BaseURL(client) /\ generated.Client = HTTPClient(client)
  /\ FacadeCalled =>
       \A i \in 1..Len(last.ret.sent) :
         /\ HasPrefix(last.ret.sent[i].url, BaseURL(client) \o <<"/">>)
         /\ last.ret.sent[i].via = HTTPClient(client)

C25_Witness ==
  /\ FacadeCalled /\ Len(last.ret.sent) = 1
  /\ BaseURL(client) = OtherBaseURL /\ HTTPClient(client) = "custom"
  /\ last.ret.sent[1].via = "custom"

\* ------------------------------------------------------------------------
\* C26: BuildQueryString emits for a non-nil pointer what it emits for the
\* value pointed to: params {k: &v} and {k: v} give the same part for k.
\* ------------------------------------------------------------------------
C26_PointerAsPointee ==
  QSCalled =>
    LET parts == PartsOf(last.out)
    IN \A e \in last.params :
         e.el[1].kind = "ptr" /\ ~e.el[1].isnil =>
           LET direct == EntryV(e.s, e.el[1].el[1])
           IN {parts[i] : i \in PartsFor(parts, e.s)} =
                {BuildQueryString(client, {direct}, <<direct>>)} \ {<<>>}

\* ------------------------------------------------------------------------
\* C27: the output of BuildQueryString, read as a URL query, holds exactly
\* the keys of params whose value is not absent, each once, with the text
\* of its value.
\* ------------------------------------------------------------------------
\* the text of a value: the string, the decimal or boolean text, the JSON text
ValueText(v) ==
  IF v.kind = "string" THEN v.s
  ELSE IF IsPrimitive(v) THEN SprintV(v, TRUE)
  ELSE JSONMarshal(Pointee(v)).text

C27_ParsesBack ==
  QSCalled =>
    LET parts == PartsOf(last.out)
        present == {e \in last.params : ~IsAbsent(e.el[1])}
    IN /\ Len(parts) = Cardinality(present)
       /\ {PartKey(parts[i]) : i \in 1..Len(parts)} = {e.s : e \in present}
       /\ \A e \in present :
            JSONRepresentable(e.el[1]) /\ Pointee(e.el[1]).kind # "ptr" =>
              \A i \in PartsFor(parts, e.s) :
                QueryUnescape(PartValue(parts[i])) = ValueText(e.el[1])

\* ------------------------------------------------------------------------
\* C28: the API key reaches the Authorization header only: a client that
\* differs in nothing but the key sends, for the same call and the same
\* response, the same requests but for that header and returns the same
\* result; the key occurs neither in a request URL nor in an error text.
\* ------------------------------------------------------------------------
WithoutAuthorization(req) ==
  [req EXCEPT !.header = {p \in req.header : p[1] # "Authorization"}]

SameButAuthorization(r1, r2) ==
  /\ r1.body = r2.body /\ r1.err = r2.err /\ r1.panicked = r2.panicked
  /\ Len(r1.sent) = Len(r2.sent)
  /\ \A i \in 1..Len(r1.sent) :
       WithoutAuthorization(r1.sent[i]) = WithoutAuthorization(r2.sent[i])

KeyApart(ret, key) ==
  key # <<>> =>
    /\ \A i \in 1..Len(ret.sent) : ~ContainsSeq(ret.sent[i].url, key)
    /\ ~ContainsSeq(ret.err.text, key)

C28_KeyOnlyInAuthorization ==
  /\ last.op = "MakeRequest" =>
       /\ KeyApart(last.ret, client.apiKey)
       /\ \A k \in ApiKeys :
            SameButAuthorization(
              last.ret,
              MakeRequest([client EXCEPT !.apiKey = k], last.method, last.path,
                          last.body, last.resp))
  /\ last.op = "MakeRequestWithQuery" =>
       /\ KeyApart(last.ret, client.apiKey)
       /\ \A k \in ApiKeys : \A o \in Perms(last.params) :
            SameButAuthorization(
              last.ret,
              MakeRequestWithQuery([client EXCEPT !.apiKey = k], last.method,
                                   last.path, last.params, o, last.body, last.resp))
  /\ FacadeCalled => KeyApart(last.ret, client.apiKey)
  /\ last.op = "ApiClient" /\ ~last.ret.panicked =>
       \A k \in ApiKeys, op \in FacadeOps, r \in ConcResponses :
         \A a \in ArgsOf(op) :
           SameButAuthorization(
             FacadeCall(generated, op, a, r),
             FacadeCall(ApiClient(k, last.options, InitialHeap).gen, op, a, r))

C28_Witness ==
  /\ last.op = "MakeRequestWithQuery" /\ Len(last.ret.sent) = 1
  /\ client.apiKey = <<"key-1">>
  /\ last.params # {} /\ last.ret.err.type = "errorString"
  /\ HasHeader(last.ret.sent[1], "Authorization", <<"Basic ", "key-1">>)

\* ------------------------------------------------------------------------
\* C29: constructing a client leaves the http.Client the caller supplied as
\* it was: its Timeout stays the one the caller set.
\* ------------------------------------------------------------------------
C29_CallerClientUntouched ==
  heap["custom"] = CallerTimeout

\* ------------------------------------------------------------------------
\* C30: every *Error MakeRequest returns has a non-empty Code.
\* ------------------------------------------------------------------------
C30_ErrorHasCode ==
  TransportCalled /\ last.ret.err.type = "*Error" => last.ret.err.Code # <<>>

====
